---------------------------- MODULE Spec2Model ----------------------------
(***************************************************************************)
(* Model of the resume/job skill-gap pipeline (extract_skills.py and       *)
(* scores.py).                                                             *)
(*                                                                         *)
(* extract_skills.py defines load_skills, clean_text, extract_skills,      *)
(* get_embeddings and process_resume_and_job twice: lines 51-188 and again *)
(* lines 206-292.  Python binds a module-level name to its last            *)
(* definition, so importers get the second ones.  The model keeps the      *)
(* source's name for the definition importers get, and the suffix _v1 for  *)
(* the first (shadowed) definition of the same name.                       *)
(*                                                                         *)
(* Texts are sequences of one-character strings.                           *)
(***************************************************************************)
EXTENDS Integers, Sequences, FiniteSets, TLC

VARIABLES
    input,   \* the arguments the calls of this run are made with
    log,     \* the calls made so far, oldest first: [fn, raised, value]
    disk,    \* the embedding cache directory .cache/embeddings and its files
    encodes, \* how often the embedding model was invoked, per cleaned text
    frame    \* the get_embeddings call in progress: its locals and position

vars == <<input, log, disk, encodes, frame>>

\* the part of the state that only get_embeddings reads or writes
cache_vars == <<disk, encodes, frame>>

----------------------------------------------------------------------------
(* Characters and Python's str / re character classes                       *)

Digits == {"1", "2"}
LowerLetters == {"a", "b", "h", "t", "p", "w", "s", "q", "l", "y", "o", "n", "d", "e", "c"}
UpperLetters == {"A", "S", "Q", "L", "P"}

\* str.lower() on one character
LowerChar(c) ==
    CASE c = "A" -> "a"
      [] c = "S" -> "s"
      [] c = "Q" -> "q"
      [] c = "L" -> "l"
      [] c = "P" -> "p"
      [] OTHER -> c

\* str.lower()
Lower(s) == [i \in 1..Len(s) |-> LowerChar(s[i])]

\* \s of re on str, str.isspace(): the model's whitespace is space and newline
IsSpace(c) == c \in {" ", "\n"}

\* \d
IsDigit(c) == c \in Digits

\* [a-z0-9]
IsLowerAlnum(c) == c \in LowerLetters \cup Digits

\* the last index of the run of non-whitespace characters that holds index i
RECURSIVE RunEnd(_, _)
RunEnd(s, i) ==
    IF i < Len(s) /\ ~IsSpace(s[i + 1]) THEN RunEnd(s, i + 1) ELSE i

\* the last index of the run of whitespace characters that holds index i
RECURSIVE SpaceEnd(_, _)
SpaceEnd(s, i) ==
    IF i < Len(s) /\ IsSpace(s[i + 1]) THEN SpaceEnd(s, i + 1) ELSE i

\* [\d\s\-]
IsPhoneChar(c) == IsDigit(c) \/ IsSpace(c) \/ c = "-"

\* the last index of the run of [\d\s\-] characters starting at i (i - 1 if none)
RECURSIVE PhoneRunEnd(_, _)
PhoneRunEnd(s, i) ==
    IF i <= Len(s) /\ IsPhoneChar(s[i]) THEN PhoneRunEnd(s, i + 1) ELSE i - 1

\* s[i..] starts with the characters of w
StartsWith(s, i, w) ==
    /\ i + Len(w) - 1 <= Len(s)
    /\ \A k \in 1..Len(w) : s[i + k - 1] = w[k]

HTTP == <<"h", "t", "t", "p">>
WWW == <<"w", "w", "w">>

\* the {7,} of the phone pattern
PhoneMinRepeat == 7

----------------------------------------------------------------------------
(* The regular expressions of clean_text: MatchEnd(re, s, i) is the index   *)
(* of the last character of the match of re that starts at index i of s,    *)
(* 0 when re does not match at i (no pattern matches the empty string).     *)

\* \S+@\S+ : both \S+ are greedy, so a match runs to the end of the run of
\* non-whitespace and needs an @ strictly inside it
MatchEmail(s, i) ==
    IF IsSpace(s[i]) THEN 0
    ELSE LET e == RunEnd(s, i)
         IN  IF \E p \in (i + 1)..(e - 1) : s[p] = "@" THEN e ELSE 0

\* a pattern that removes https URLs only: what MatchHttp must not be
MatchHttpsOnly(s, i) ==
    IF StartsWith(s, i, HTTP \o <<"s">>) /\ i + 5 <= Len(s) /\ ~IsSpace(s[i + 5])
    THEN RunEnd(s, i + 5) ELSE 0

\* http\S+
MatchHttp(s, i) ==
    IF StartsWith(s, i, HTTP) /\ i + 4 <= Len(s) /\ ~IsSpace(s[i + 4])
    THEN RunEnd(s, i + 4) ELSE 0

\* www\.\S+ (line 84)
MatchWwwEscaped(s, i) ==
    IF /\ StartsWith(s, i, WWW)
       /\ i + 4 <= Len(s)
       /\ s[i + 3] = "."
       /\ ~IsSpace(s[i + 4])
    THEN RunEnd(s, i + 4) ELSE 0

\* www.\S+ (line 231): the dot is any character but a newline
MatchWwwAnyChar(s, i) ==
    IF /\ StartsWith(s, i, WWW)
       /\ i + 4 <= Len(s)
       /\ s[i + 3] # "\n"
       /\ ~IsSpace(s[i + 4])
    THEN RunEnd(s, i + 4) ELSE 0

\* \+?\d[\d\s\-]{7,}\d : after the first digit the greedy class run is given
\* back until a digit ends the match, with at least 7 characters in between
MatchPhone(s, i) ==
    LET j == IF s[i] = "+" THEN i + 1 ELSE i
    IN  IF j > Len(s) \/ ~IsDigit(s[j]) THEN 0
        ELSE LET r == PhoneRunEnd(s, j + 1)
                 ends == {q \in (j + PhoneMinRepeat + 1)..r : IsDigit(s[q])}
             IN  IF ends = {} THEN 0
                 ELSE CHOOSE q \in ends : \A q2 \in ends : q2 <= q

\* [^a-z0-9\s]
MatchSpecial(s, i) ==
    IF IsLowerAlnum(s[i]) \/ IsSpace(s[i]) THEN 0 ELSE i

\* \s+
MatchSpaces(s, i) ==
    IF IsSpace(s[i]) THEN SpaceEnd(s, i) ELSE 0

MatchEnd(re, s, i) ==
    CASE re = "email" -> MatchEmail(s, i)
      [] re = "url_v1" ->
            IF MatchHttp(s, i) # 0 THEN MatchHttp(s, i) ELSE MatchWwwEscaped(s, i)
      [] re = "url" ->
            IF MatchHttp(s, i) # 0 THEN MatchHttp(s, i) ELSE MatchWwwAnyChar(s, i)
      [] re = "phone" -> MatchPhone(s, i)
      [] re = "special" -> MatchSpecial(s, i)
      [] re = "spaces" -> MatchSpaces(s, i)

\* re.sub(re, " ", s) from index i on: the leftmost match is replaced by one
\* space and the scan goes on after it
RECURSIVE SubFrom(_, _, _)
SubFrom(re, s, i) ==
    IF i > Len(s) THEN <<>>
    ELSE LET e == MatchEnd(re, s, i)
         IN  IF e # 0 THEN <<" ">> \o SubFrom(re, s, e + 1)
             ELSE <<s[i]>> \o SubFrom(re, s, i + 1)

ReSub(re, s) == SubFrom(re, s, 1)

\* str.strip()
RECURSIVE Strip(_)
Strip(s) ==
    IF s = <<>> THEN s
    ELSE IF IsSpace(s[1]) THEN Strip(Tail(s))
    ELSE IF IsSpace(s[Len(s)]) THEN Strip(SubSeq(s, 1, Len(s) - 1))
    ELSE s

\* clean_text with the URL pattern given: both definitions differ in it only
CleanWith(url, text) ==
    IF text = <<>> THEN <<>>
    ELSE Strip(ReSub("spaces",
               ReSub("special",
               ReSub("phone",
               ReSub(url,
               ReSub("email", Lower(text)))))))

\* clean_text, first definition (lines 79-88), shadowed by the second
clean_text_v1(text) == CleanWith("url_v1", text)

\* clean_text as importers get it (lines 224-237)
clean_text(text) == CleanWith("url", text)

----------------------------------------------------------------------------
(* Input texts: up to MaxFrags fragments, one after the other               *)

MaxFrags == 3

Fragments ==
    { HTTP, WWW, <<".">>, <<"@">>, <<" ">>, <<"\n">>, <<"a">>, <<"A">>,
      <<"1">>, <<"-">>, <<"+">>,
      <<"1", "2", "1", "2", "1", "2", "1", "2">> }

RECURSIVE TextsUpTo(_)
TextsUpTo(n) ==
    IF n = 0 THEN {<<>>}
    ELSE LET shorter == TextsUpTo(n - 1)
         IN  shorter \cup {t \o f : t \in shorter, f \in Fragments}

Texts == TextsUpTo(MaxFrags)

\* s holds w as a substring
Contains(s, w) == \E i \in 1..Len(s) : StartsWith(s, i, w)

----------------------------------------------------------------------------
(* Text runs: clean_text on a text, then on its own result                  *)

\* the cache state of the runs that never call get_embeddings
NoCacheUse ==
    /\ disk = [dir |-> "absent", files |-> <<>>]
    /\ encodes = <<>>
    /\ frame = [pc |-> "idle"]

Call(fn, value) == [fn |-> fn, raised |-> FALSE, value |-> value]
Raise(fn, exc) == [fn |-> fn, raised |-> TRUE, value |-> exc]

InitText ==
    /\ input \in [text : Texts]
    /\ log = <<>>
    /\ NoCacheUse

\* clean_text(text)
CleanText ==
    /\ log = <<>>
    /\ log' = <<Call("clean_text", clean_text(input.text))>>
    /\ UNCHANGED <<input, cache_vars>>

\* clean_text(clean_text(text)): the argument is the first call's result
CleanTextAgain ==
    /\ Len(log) = 1
    /\ log[1].fn = "clean_text"
    /\ log' = Append(log, Call("clean_text", clean_text(log[1].value)))
    /\ UNCHANGED <<input, cache_vars>>

\* the same two calls on the first definition
CleanTextV1 ==
    /\ log = <<>>
    /\ log' = <<Call("clean_text_v1", clean_text_v1(input.text))>>
    /\ UNCHANGED <<input, cache_vars>>

CleanTextV1Again ==
    /\ Len(log) = 1
    /\ log[1].fn = "clean_text_v1"
    /\ log' = Append(log, Call("clean_text_v1", clean_text_v1(log[1].value)))
    /\ UNCHANGED <<input, cache_vars>>

NextText == CleanText \/ CleanTextAgain \/ CleanTextV1 \/ CleanTextV1Again

SpecText == InitText /\ [][NextText]_vars


----------------------------------------------------------------------------
(* Claims about clean_text                                                   *)

\* the calls of fn in the log whose argument was another call's result
IsRecleanOf(fn) ==
    /\ Len(log) = 2
    /\ log[1].fn = fn
    /\ log[2].fn = fn

\* C3 (as claimed): clean_text is idempotent: cleaning the result of
\* clean_text again gives that result back, for every input text
C3_Idempotent ==
    IsRecleanOf("clean_text") => log[2].value = log[1].value

\* the same statement of the first definition, which fails as well (digits
\* that punctuation kept apart become a phone number once it is blanked)
C3_IdempotentV1 ==
    IsRecleanOf("clean_text_v1") => log[2].value = log[1].value

\* s holds HTTP followed by a character that is not whitespace
HasHttpThenChar(s) ==
    \E i \in 1..Len(s) :
        StartsWith(s, i, HTTP) /\ i + 4 <= Len(s) /\ ~IsSpace(s[i + 4])

\* s holds WWW followed by two characters that are not whitespace
HasWwwThenTwoChars(s) ==
    \E i \in 1..Len(s) :
        /\ StartsWith(s, i, WWW)
        /\ i + 4 <= Len(s)
        /\ ~IsSpace(s[i + 3])
        /\ ~IsSpace(s[i + 4])

\* C4 (as claimed): no output of clean_text holds an @, nor http, nor www
C4_NoAtHttpWww ==
    \A k \in 1..Len(log) :
        log[k].fn = "clean_text" =>
            /\ ~Contains(log[k].value, <<"@">>)
            /\ ~Contains(log[k].value, HTTP)
            /\ ~Contains(log[k].value, WWW)

\* C4 (amended): no output of clean_text holds an @, nor http followed by
\* another character of the same word, nor www followed by two more
\* characters of the same word; a bare http or www stays
C4_NoAtNoUrlLeft ==
    \A k \in 1..Len(log) :
        log[k].fn = "clean_text" =>
            /\ ~Contains(log[k].value, <<"@">>)
            /\ ~HasHttpThenChar(log[k].value)
            /\ ~HasWwwThenTwoChars(log[k].value)

\* C4's case: a text with an @ and with http was cleaned: the @ is gone
\* and a bare http is left
C4_Witness ==
    /\ Len(log) = 1
    /\ log[1].fn = "clean_text"
    /\ Contains(input.text, <<"@">>)
    /\ Contains(input.text, HTTP)
    /\ Contains(log[1].value, HTTP)

----------------------------------------------------------------------------
(* Python's ordering of str (by code point) and sorted()                    *)

\* ord(c) of the model's characters
CodePoint(c) ==
    CASE c = "\n" -> 10 [] c = " " -> 32 [] c = "+" -> 43 [] c = "," -> 44
      [] c = "-" -> 45 [] c = "." -> 46 [] c = "1" -> 49 [] c = "2" -> 50
      [] c = "@" -> 64 [] c = "A" -> 65 [] c = "L" -> 76 [] c = "P" -> 80
      [] c = "Q" -> 81 [] c = "S" -> 83 [] c = "a" -> 97 [] c = "b" -> 98
      [] c = "c" -> 99 [] c = "d" -> 100 [] c = "e" -> 101 [] c = "h" -> 104
      [] c = "l" -> 108 [] c = "n" -> 110 [] c = "o" -> 111 [] c = "p" -> 112
      [] c = "q" -> 113 [] c = "s" -> 115 [] c = "t" -> 116 [] c = "w" -> 119
      [] c = "y" -> 121

\* a < b on str
RECURSIVE StrLess(_, _)
StrLess(a, b) ==
    IF b = <<>> THEN FALSE
    ELSE IF a = <<>> THEN TRUE
    ELSE IF a[1] # b[1] THEN CodePoint(a[1]) < CodePoint(b[1])
    ELSE StrLess(Tail(a), Tail(b))

\* sorted(S) of a set of str
RECURSIVE Sorted(_)
Sorted(S) ==
    IF S = {} THEN <<>>
    ELSE LET m == CHOOSE x \in S : \A y \in S \ {x} : StrLess(x, y)
         IN  <<m>> \o Sorted(S \ {m})

\* set(lst)
ToSet(lst) == {lst[i] : i \in 1..Len(lst)}

IsSortedNoDup(lst) == \A i \in 1..(Len(lst) - 1) : StrLess(lst[i], lst[i + 1])

----------------------------------------------------------------------------
(* scores.py: compute_skill_match                                           *)

\* num / den cut to two decimals instead of rounded: what RoundHundredths
\* must not be
TruncHundredths(num, den) == (100 * num) \div den

\* round(num / den, 2), in hundredths: the nearest hundredth, a tie going to
\* the even one (ties arise only when 8 divides den, where num / den is an
\* exact binary fraction)
RoundHundredths(num, den) ==
    LET q == (100 * num) \div den
        r == (100 * num) % den
    IN  IF 2 * r > den THEN q + 1
        ELSE IF 2 * r < den THEN q
        ELSE IF q % 2 = 0 THEN q ELSE q + 1

\* compute_skill_match that forgets the fuzzy matches of the resume: what
\* compute_skill_match must not be
compute_skill_match_dict_only(resume_skills, job_skills) ==
    LET resume_set == ToSet(resume_skills.dict_skills)
        job_set == ToSet(job_skills.dict_skills \o job_skills.fuzzy_skills)
        overlap == resume_set \cap job_set
        missing == job_set \ resume_set
    IN  [skill_score |-> IF job_set = {} THEN 0
                         ELSE (100 * Cardinality(overlap)) \div Cardinality(job_set),
         overlap |-> Sorted(overlap),
         missing |-> Sorted(missing)]

\* compute_skill_match (lines 23-45); skill_score is in hundredths.  The
\* except branch (lines 43-45) is not reachable with records of lists of str.
compute_skill_match(resume_skills, job_skills) ==
    LET resume_set == ToSet(resume_skills.dict_skills \o resume_skills.fuzzy_skills)
        job_set == ToSet(job_skills.dict_skills \o job_skills.fuzzy_skills)
        overlap == resume_set \cap job_set
        missing == job_set \ resume_set
        skill_score == IF Cardinality(job_set) = 0 THEN 0
                       ELSE RoundHundredths(Cardinality(overlap), Cardinality(job_set))
    IN  [skill_score |-> skill_score,
         overlap |-> Sorted(overlap),
         missing |-> Sorted(missing)]

----------------------------------------------------------------------------
(* Scoring runs: compute_skill_match on two skill records                   *)

PYTHON == <<"p", "y", "t", "h", "o", "n">>
SQL == <<"s", "q", "l">>
AWS == <<"a", "w", "s">>
SAS == <<"s", "a", "s">>
DBT == <<"d", "b", "t">>

SkillPool == <<PYTHON, SQL, AWS, SAS, DBT>>

NumSkills == 3

Skills == {SkillPool[i] : i \in 1..NumSkills}

\* the records extract_skills returns: two sorted lists without duplicates
SkillRecords ==
    {[dict_skills |-> Sorted(d), fuzzy_skills |-> Sorted(f)] :
        d \in SUBSET Skills, f \in SUBSET Skills}

InitScore ==
    /\ input \in [resume : SkillRecords, job : SkillRecords]
    /\ log = <<>>
    /\ NoCacheUse

ComputeSkillMatch ==
    /\ log = <<>>
    /\ log' = <<Call("compute_skill_match",
                     compute_skill_match(input.resume, input.job))>>
    /\ UNCHANGED <<input, cache_vars>>

NextScore == ComputeSkillMatch

SpecScore == InitScore /\ [][NextScore]_vars

\* the skills a record names, as the claims define them
SkillsOf(rec) == ToSet(rec.dict_skills) \cup ToSet(rec.fuzzy_skills)

Scored == Len(log) = 1 /\ log[1].fn = "compute_skill_match"

\* C1: compute_skill_match returns overlap = resume skills /\ job skills and
\* missing = job skills - resume skills (each side the union of dict_skills
\* and fuzzy_skills); so overlap and missing are disjoint and together are
\* the job's skills
C1_OverlapMissing ==
    Scored =>
        LET r == log[1].value
        IN  /\ ~log[1].raised
            /\ ToSet(r.overlap) = SkillsOf(input.resume) \cap SkillsOf(input.job)
            /\ ToSet(r.missing) = SkillsOf(input.job) \ SkillsOf(input.resume)
            /\ ToSet(r.overlap) \cap ToSet(r.missing) = {}
            /\ ToSet(r.overlap) \cup ToSet(r.missing) = SkillsOf(input.job)

\* C1's case: the resume has a skill by fuzzy match only that the job asks
\* for, and the job asks for one the resume lacks
C1_Witness ==
    /\ Scored
    /\ \E x \in SkillsOf(input.job) :
          /\ x \in ToSet(input.resume.fuzzy_skills)
          /\ x \notin ToSet(input.resume.dict_skills)
          /\ x \in ToSet(log[1].value.overlap)
    /\ log[1].value.missing # <<>>

\* C2 (as claimed): skill_score is exactly |overlap| / |job skills|, and 0
\* when the job has no skills (skill_score is in hundredths)
C2_ExactRatio ==
    Scored =>
        LET r == log[1].value
            j == Cardinality(SkillsOf(input.job))
        IN  IF j = 0 THEN r.skill_score = 0
            ELSE r.skill_score * j = 100 * Len(r.overlap)

\* C2 (amended): skill_score is |overlap| / |job skills| rounded to two
\* decimals (within half a hundredth of the ratio, and equal to it when the
\* ratio has two decimals: python against python, sql gives 0.5), and 0.0
\* when the job has no skills
C2_RoundedRatio ==
    Scored =>
        LET r == log[1].value
            j == Cardinality(SkillsOf(input.job))
            o == Cardinality(SkillsOf(input.resume) \cap SkillsOf(input.job))
            d == r.skill_score * j - 100 * o
        IN  /\ j = 0 => r.skill_score = 0
            /\ j > 0 => 2 * d <= j /\ 2 * (0 - d) <= j
            /\ (SkillsOf(input.resume) = {PYTHON} /\ SkillsOf(input.job) = {PYTHON, SQL})
                   => r.skill_score = 50

\* C2's case: two of the job's three skills are on the resume, and the ratio
\* 2/3 is reported as 0.67
C2_Witness ==
    /\ Scored
    /\ Cardinality(SkillsOf(input.job)) = 3
    /\ Len(log[1].value.overlap) = 2
    /\ log[1].value.skill_score = 67

----------------------------------------------------------------------------
(* load_skills: the skill dictionary read from a CSV source                 *)

\* spacy.lang.en.stop_words.STOP_WORDS: the entries the model's words meet
STOP_WORDS ==
    { <<"a">>, <<"a", "s">>, <<"a", "l", "l">>, <<"a", "l", "s", "o">> }

\* str.split(sep): the pieces of s between the separators
RECURSIVE Split(_, _)
Split(s, sep) ==
    LET seps == {i \in 1..Len(s) : s[i] = sep}
    IN  IF seps = {} THEN <<s>>
        ELSE LET k == CHOOSE i \in seps : \A n \in seps : i <= n
             IN  <<SubSeq(s, 1, k - 1)>> \o Split(SubSeq(s, k + 1, Len(s)), sep)

\* a source pd.read_csv raises on (missing file, empty or malformed data)
Unreadable == [readable |-> FALSE, cells |-> <<>>]

\* a source pd.read_csv reads: cells is df.values.flatten()
Readable(cells) == [readable |-> TRUE, cells |-> cells]

\* a cell read_csv gives as NaN (a float): isinstance(row, str) is false
NaN == <<"NaN">>

\* the loop of lines 63-72 / 210-219 over df.values.flatten(): the pieces
\* kept of the cells
KeptSkills(cells) ==
    LET pieces == UNION {ToSet(Split(cells[k], ",")) :
                            k \in {n \in 1..Len(cells) : cells[n] # NaN}}
        cleaned == {Lower(Strip(piece)) : piece \in pieces}
    IN  {clean_skill \in cleaned :
            /\ clean_skill # <<>>
            /\ Len(clean_skill) > 2
            /\ clean_skill \notin STOP_WORDS}

\* list(S) of a set of str: Python fixes no order (str hashes are salted per
\* process), so any order of the elements is a possible result
ListsOf(S) ==
    {lst \in [1..Cardinality(S) -> S] :
        \A i, j \in 1..Cardinality(S) : lst[i] = lst[j] => i = j}

\* load_skills, first definition (lines 51-76), shadowed by the second:
\* [] on a read failure, else the sorted list
load_skills_v1(source) ==
    IF ~source.readable THEN Call("load_skills_v1", <<>>)
    ELSE Call("load_skills_v1", Sorted(KeptSkills(source.cells)))

\* load_skills as importers get it (lines 206-220): read_csv is not guarded,
\* and the result is list(skills_set); the set of its possible outcomes
load_skills(source) ==
    IF ~source.readable THEN {Raise("load_skills", <<>>)}
    ELSE {Call("load_skills", lst) : lst \in ListsOf(KeptSkills(source.cells))}

MaxCells == 3

\* cells of a source; one with commas is a quoted field
CellPool ==
    { <<"P", "y", "t", "h", "o", "n", ",", " ", "S", "Q", "L">>,
      <<" ", "s", "q", "l", " ">>,
      <<"A", "L", "L", ",", "p", "q">>,
      <<"a", "w", "s", ",", ",", "S", "Q", "L">>,
      <<"a", "l", "s", "o">>,
      NaN }

RECURSIVE CellsUpTo(_)
CellsUpTo(n) ==
    IF n = 0 THEN {<<>>}
    ELSE LET shorter == CellsUpTo(n - 1)
         IN  shorter \cup {Append(cells, c) : cells \in shorter, c \in CellPool}

Sources == {Readable(cells) : cells \in CellsUpTo(MaxCells)} \cup {Unreadable}

InitLoad ==
    /\ input \in [source : Sources]
    /\ log = <<>>
    /\ NoCacheUse

LoadSkills ==
    /\ log = <<>>
    /\ \E outcome \in load_skills(input.source) : log' = <<outcome>>
    /\ UNCHANGED <<input, cache_vars>>

LoadSkillsV1 ==
    /\ log = <<>>
    /\ log' = <<load_skills_v1(input.source)>>
    /\ UNCHANGED <<input, cache_vars>>

NextLoad == LoadSkills \/ LoadSkillsV1

SpecLoad == InitLoad /\ [][NextLoad]_vars

Loaded(fn) == Len(log) = 1 /\ log[1].fn = fn

\* C5 (as claimed): when the source cannot be read, the load_skills that
\* importers get returns an empty list and does not raise
C5_EmptyOnReadFailure ==
    (Loaded("load_skills") /\ ~input.source.readable) =>
        ~log[1].raised /\ log[1].value = <<>>

\* the first definition does what C5 says
C5_EmptyOnReadFailureV1 ==
    (Loaded("load_skills_v1") /\ ~input.source.readable) =>
        ~log[1].raised /\ log[1].value = <<>>

\* the pieces of a readable source that the claim says are the result
ClaimedSkills(cells) ==
    {Lower(Strip(piece)) :
        piece \in UNION {ToSet(Split(cells[k], ",")) :
                            k \in {n \in 1..Len(cells) : cells[n] # NaN}}}
    \ ({p \in STOP_WORDS : TRUE} \cup {<<>>}
         \cup {<<x>> : x \in LowerLetters} \cup {<<x, y>> : x, y \in LowerLetters})

\* C6 (as claimed): for a readable source load_skills returns a list sorted
\* ascending without duplicates, whose entries are exactly the lowercased,
\* trimmed comma-separated pieces of the cells that are longer than 2 and no
\* stopwords
C6_SortedDedupedPieces ==
    (Loaded("load_skills") /\ input.source.readable) =>
        /\ ~log[1].raised
        /\ IsSortedNoDup(log[1].value)
        /\ ToSet(log[1].value) = ClaimedSkills(input.source.cells)

\* the first definition does what C6 says
C6_SortedDedupedPiecesV1 ==
    (Loaded("load_skills_v1") /\ input.source.readable) =>
        /\ ~log[1].raised
        /\ IsSortedNoDup(log[1].value)
        /\ ToSet(log[1].value) = ClaimedSkills(input.source.cells)

\* what does hold of the list importers get: the same entries, in any order
C6_DedupedPieces ==
    (Loaded("load_skills") /\ input.source.readable) =>
        /\ ~log[1].raised
        /\ Len(log[1].value) = Cardinality(ToSet(log[1].value))
        /\ ToSet(log[1].value) = ClaimedSkills(input.source.cells)

----------------------------------------------------------------------------
(* rapidfuzz: fuzz.token_sort_ratio and process.extractOne                  *)

Max(x, y) == IF x >= y THEN x ELSE y

\* one row of the longest-common-subsequence table of a and b: row i from
\* row i - 1 (prev); cur holds the columns 0..Len(cur)-1 filled so far
RECURSIVE LcsRow(_, _, _, _, _)
LcsRow(a, b, i, prev, cur) ==
    IF Len(cur) > Len(b) THEN cur
    ELSE LET j == Len(cur)
             cell == IF a[i] = b[j] THEN prev[j] + 1
                     ELSE Max(prev[j + 1], cur[j])
         IN  LcsRow(a, b, i, prev, Append(cur, cell))

\* row i of the table: column j + 1 holds the length of the longest common
\* subsequence of the first i characters of a and the first j of b
RECURSIVE LcsTable(_, _, _)
LcsTable(a, b, i) ==
    IF i = 0 THEN [j \in 1..(Len(b) + 1) |-> 0]
    ELSE LcsRow(a, b, i, LcsTable(a, b, i - 1), <<0>>)

\* the length of the longest common subsequence of a and b
Lcs(a, b) == LcsTable(a, b, Len(a))[Len(b) + 1]

\* " ".join(words)
RECURSIVE Join(_)
Join(words) ==
    IF words = <<>> THEN <<>>
    ELSE IF Len(words) = 1 THEN words[1]
    ELSE words[1] \o <<" ">> \o Join(Tail(words))

\* s.split(): the words of s between runs of whitespace
SplitWords(s) ==
    LET flat == [i \in 1..Len(s) |-> IF IsSpace(s[i]) THEN " " ELSE s[i]]
    IN  SelectSeq(Split(flat, " "), LAMBDA w : w # <<>>)

\* the words of s sorted and joined by one space
TokenSort(s) == Join(SortSeq(SplitWords(s), StrLess))

\* fuzz.token_sort_ratio(a, b) as the fraction num / den of 100: the
\* normalized Indel similarity 2 * lcs / (len a + len b) of the token-sorted
\* strings
token_sort_ratio(a, b) ==
    LET x == TokenSort(a)
        y == TokenSort(b)
    IN  IF Len(x) + Len(y) = 0 THEN [num |-> 100, den |-> 1]
        ELSE [num |-> 200 * Lcs(x, y), den |-> Len(x) + Len(y)]

\* score1 > score2
ScoreGreater(s1, s2) == s1.num * s2.den > s2.num * s1.den

\* score >= threshold, for an integer threshold
ScoreAtLeast(score, threshold) == score.num >= threshold * score.den

\* process.extractOne(query, choices, scorer=fuzz.token_sort_ratio): the index
\* of the first choice with the highest score, 0 (None) when there is no choice
extractOne(query, choices) ==
    IF choices = <<>> THEN 0
    ELSE LET scores == [n \in 1..Len(choices) |->
                           token_sort_ratio(query, choices[n])]
         IN  CHOOSE k \in 1..Len(choices) :
                \A n \in 1..Len(choices) :
                    /\ ~ScoreGreater(scores[n], scores[k])
                    /\ (n < k => ScoreGreater(scores[k], scores[n]))

----------------------------------------------------------------------------
(* extract_skills                                                            *)

\* fuzzy_threshold=80 of the definition importers get (line 240)
DefaultThreshold == 80

\* fuzzy_threshold: int = 88 of the first definition (line 91)
DefaultThreshold_v1 == 88

\* the threshold a call runs with: arg is <<>> when the argument is left out
ThresholdOf(arg, default) == IF arg = <<>> THEN default ELSE arg[1]

\* str.isalpha(), Token.is_alpha
IsAlpha(w) ==
    /\ w # <<>>
    /\ \A i \in 1..Len(w) : w[i] \in LowerLetters \cup UpperLetters

\* the spans of whole words of a cleaned text: what doc.noun_chunks can hold
Spans(cleaned) ==
    LET words == SplitWords(cleaned)
    IN  {Join(SubSeq(words, i, j)) : i \in 1..Len(words), j \in 1..Len(words)}
            \ {<<>>}

\* candidates (lines 245-248): the alphabetic tokens of the document that are
\* no stopwords, and the noun chunks of 2 to 40 characters
Candidates(cleaned, chunks) ==
    {w \in ToSet(SplitWords(cleaned)) : IsAlpha(w) /\ Lower(w) \notin STOP_WORDS}
        \cup {Lower(Strip(c)) : c \in {x \in chunks : 2 <= Len(Strip(x)) /\ Len(Strip(x)) <= 40}}

\* the dictionary entries the fuzzy branch records for the candidates that
\* are no dictionary entries
FuzzyMatches(skills_set, cands, threshold) ==
    LET res == [c \in cands \ ToSet(skills_set) |-> extractOne(c, skills_set)]
    IN  {skills_set[res[cand]] :
            cand \in {c \in DOMAIN res :
                        /\ res[c] # 0
                        /\ ScoreAtLeast(token_sort_ratio(c, skills_set[res[c]]),
                                        threshold)}}

SkillRecord(dict_matches, fuzzy_matches) ==
    [dict_skills |-> Sorted(dict_matches), fuzzy_skills |-> Sorted(fuzzy_matches)]

\* extract_skills, first definition (lines 91-124), shadowed by the second.
\* chunks is doc.noun_chunks of the cleaned text.
extract_skills_v1(skills_set, text, chunks, threshold_arg) ==
    IF text = <<>> THEN Call("extract_skills_v1", SkillRecord({}, {}))
    ELSE LET cands == Candidates(clean_text_v1(text), chunks)
             fuzzy_threshold == ThresholdOf(threshold_arg, DefaultThreshold_v1)
         IN  Call("extract_skills_v1",
                  SkillRecord(cands \cap ToSet(skills_set),
                              FuzzyMatches(skills_set, cands, fuzzy_threshold)))

\* extract_skills as importers get it (lines 240-268): with no dictionary
\* entry extractOne returns None, and unpacking it (line 259) raises TypeError
extract_skills(skills_set, text, chunks, threshold_arg) ==
    LET cands == Candidates(clean_text(text), chunks)
        fuzzy_threshold == ThresholdOf(threshold_arg, DefaultThreshold)
    IN  IF \E c \in cands \ ToSet(skills_set) : extractOne(c, skills_set) = 0
        THEN Raise("extract_skills", SkillRecord({}, {}))
        ELSE Call("extract_skills",
                  SkillRecord(cands \cap ToSet(skills_set),
                              FuzzyMatches(skills_set, cands, fuzzy_threshold)))

PYHTON == <<"p", "y", "h", "t", "o", "n">>

\* words of the texts skills are extracted from
WordPool ==
    { <<"P", "y", "t", "h", "o", "n", ",">>, PYHTON, SQL,
      <<"a", "l", "l">>, <<"1", "2">> }

\* entries of the dictionaries
DictPool == {PYTHON, SQL, PYTHON \o <<" ">> \o SQL}

MaxWords == 2

RECURSIVE WordSeqsUpTo(_)
WordSeqsUpTo(n) ==
    IF n = 0 THEN {<<>>}
    ELSE LET shorter == WordSeqsUpTo(n - 1)
         IN  shorter \cup {Append(ws, w) : ws \in shorter, w \in WordPool}

ExtractTexts == {Join(ws) : ws \in WordSeqsUpTo(MaxWords)}

\* the dictionaries: lists without duplicates, in any order
Dictionaries == UNION {ListsOf(S) : S \in SUBSET DictPool}

\* the fuzzy_threshold argument: left out, or given
ThresholdArgs == {<<>>, <<88>>}

InitExtract ==
    /\ \E skills_set \in Dictionaries, text \in ExtractTexts, th \in ThresholdArgs :
          \E chunks \in SUBSET Spans(clean_text(text)) :
              input = [skills_set |-> skills_set, text |-> text,
                       chunks |-> chunks, threshold |-> th]
    /\ log = <<>>
    /\ NoCacheUse

ExtractSkills ==
    /\ log = <<>>
    /\ log' = <<extract_skills(input.skills_set, input.text, input.chunks,
                               input.threshold)>>
    /\ UNCHANGED <<input, cache_vars>>

ExtractSkillsV1 ==
    /\ log = <<>>
    /\ log' = <<extract_skills_v1(input.skills_set, input.text, input.chunks,
                                  input.threshold)>>
    /\ UNCHANGED <<input, cache_vars>>

NextExtract == ExtractSkills \/ ExtractSkillsV1

SpecExtract == InitExtract /\ [][NextExtract]_vars

Extracted(fn) == Len(log) = 1 /\ log[1].fn = fn

\* the entries the claim has recorded as fuzzy matches when the threshold is
\* th: for each candidate that is no dictionary entry, the entry most similar
\* to it, if the similarity is at least th
ClaimedFuzzy(cleaned, th) ==
    LET cands == Candidates(cleaned, input.chunks) \ ToSet(input.skills_set)
    IN  {input.skills_set[extractOne(c, input.skills_set)] :
            c \in {x \in cands :
                     /\ input.skills_set # <<>>
                     /\ ScoreAtLeast(
                            token_sort_ratio(x,
                                input.skills_set[extractOne(x, input.skills_set)]),
                            th)}}

\* what C7 says of a call that returned, cleaned being the text it matched
C7_Holds(cleaned) ==
    LET r == log[1].value
        dict == ToSet(input.skills_set)
    IN  /\ ToSet(r.dict_skills) = Candidates(cleaned, input.chunks) \cap dict
        /\ IF input.threshold # <<>>
           THEN ToSet(r.fuzzy_skills) = ClaimedFuzzy(cleaned, input.threshold[1])
           ELSE /\ ClaimedFuzzy(cleaned, 88) \subseteq ToSet(r.fuzzy_skills)
                /\ ToSet(r.fuzzy_skills) \subseteq ClaimedFuzzy(cleaned, 85)
        /\ ToSet(r.dict_skills) \subseteq dict
        /\ ToSet(r.fuzzy_skills) \subseteq dict

\* C7 (as claimed): a candidate that is a dictionary entry is recorded in
\* dict_skills and not fuzzy-matched; for any other candidate the most similar
\* dictionary entry is recorded in fuzzy_skills exactly when its score is at
\* least the threshold, which by default lies within 85-88; all that is
\* recorded is dictionary entries
C7_ExactElseFuzzy ==
    (Extracted("extract_skills") /\ ~log[1].raised) =>
        C7_Holds(clean_text(input.text))

\* the first definition does what C7 says
C7_ExactElseFuzzyV1 ==
    (Extracted("extract_skills_v1") /\ ~log[1].raised) =>
        C7_Holds(clean_text_v1(input.text))

\* what C8 says of a call
C8_Holds ==
    /\ ~log[1].raised
    /\ input.text = <<>> => log[1].value = SkillRecord({}, {})
    /\ input.skills_set = <<>> => log[1].value = SkillRecord({}, {})

\* C8 (as claimed): extract_skills never raises: an empty text gives two empty
\* lists, and so does an empty dictionary with any text
C8_NeverRaises == Extracted("extract_skills") => C8_Holds

\* the first definition does what C8 says
C8_NeverRaisesV1 == Extracted("extract_skills_v1") => C8_Holds

----------------------------------------------------------------------------
(* get_embeddings and the on-disk embedding cache                           *)

\* _embedder.encode([cleaned])[0]: the model's vector for a cleaned text
Embed(cleaned) == [emb_of |-> cleaned]

\* hashlib.sha256(cleaned.encode("utf-8")).hexdigest(): taken to be free of
\* collisions
Sha256(cleaned) == [sha256_of |-> cleaned]

\* the files a cache path can hold: none, a saved vector, or bytes np.load
\* raises on (a truncated or damaged .npy file)
NoFile == [state |-> "none", vec |-> <<>>]
CorruptFile == [state |-> "corrupt", vec |-> <<>>]
NpyFile(vec) == [state |-> "npy", vec |-> vec]

\* the raw texts embeddings are asked for: the first two clean to the same
CacheTexts == { <<"a">>, <<"A", " ">>, <<"b">> }

CacheKeys == {Sha256(clean_text_v1(t)) : t \in CacheTexts}

\* the number of get_embeddings calls of a run
MaxCalls == 3

\* a finished call: what it returned or that it raised, and whether a cache
\* read or write of the call failed
CallOn(fn, text, value, io_failed) ==
    [fn |-> fn, raised |-> FALSE, value |-> value, text |-> text,
     io_failed |-> io_failed]

RaiseOn(fn, text) ==
    [fn |-> fn, raised |-> TRUE, value |-> <<>>, text |-> text,
     io_failed |-> TRUE]

Idle == [pc |-> "idle"]

\* every file of the cache is one an earlier run saved under its key, or is
\* damaged
ValidOrCorrupt(files) ==
    \A k \in DOMAIN files :
        files[k].state = "npy" => files[k].vec = Embed(k.sha256_of)

\* the cache directory is absent and creatable, absent and not creatable (a
\* read-only install directory), or present with any files left by earlier
\* runs
InitCache ==
    /\ input \in [impl : {"get_embeddings", "get_embeddings_v1"}]
    /\ log = <<>>
    /\ \/ disk \in [dir : {"absent", "uncreatable"}, files : {[k \in CacheKeys |-> NoFile]}]
       \/ /\ disk \in [dir : {"present"},
                       files : [CacheKeys -> {NoFile, CorruptFile}
                                   \cup {NpyFile(Embed(k.sha256_of)) : k \in CacheKeys}]]
          /\ ValidOrCorrupt(disk.files)
    /\ encodes = [t \in {clean_text_v1(x) : x \in CacheTexts} |-> 0]
    /\ frame = Idle

\* get_embeddings as importers get it (lines 271-272): the model is invoked
\* on the cleaned text, and the cache is neither read nor written
GetEmbeddings ==
    /\ input.impl = "get_embeddings"
    /\ Len(log) < MaxCalls
    /\ \E text \in CacheTexts :
          LET cleaned == clean_text(text)
          IN  /\ encodes' = [encodes EXCEPT ![cleaned] = @ + 1]
              /\ log' = Append(log, CallOn("get_embeddings", text, Embed(cleaned), FALSE))
    /\ UNCHANGED <<input, disk, frame>>

\* get_embeddings, first definition, lines 136-141: os.makedirs outside any
\* try, then the cleaned text and its cache path
V1Begin ==
    /\ input.impl = "get_embeddings_v1"
    /\ frame.pc = "idle"
    /\ Len(log) < MaxCalls
    /\ \E text \in CacheTexts :
          IF disk.dir = "uncreatable"
          THEN /\ log' = Append(log, RaiseOn("get_embeddings_v1", text))
               /\ UNCHANGED <<disk, frame>>
          ELSE /\ disk' = [disk EXCEPT !.dir = "present"]
               /\ frame' = [pc |-> "load", text |-> text,
                            cleaned |-> clean_text_v1(text),
                            cache_path |-> Sha256(clean_text_v1(text)),
                            io_failed |-> FALSE]
               /\ UNCHANGED log
    /\ UNCHANGED <<input, encodes>>

\* lines 144-149: os.path.exists and np.load; an exception of np.load is
\* swallowed and the call goes on to compute
V1Load ==
    /\ frame.pc = "load"
    /\ LET file == disk.files[frame.cache_path]
       IN  CASE file.state = "npy" ->
                  /\ log' = Append(log, CallOn("get_embeddings_v1", frame.text, file.vec, frame.io_failed))
                  /\ frame' = Idle
             [] file.state = "corrupt" ->
                  /\ frame' = [frame EXCEPT !.pc = "encode", !.io_failed = TRUE]
                  /\ UNCHANGED log
             [] file.state = "none" ->
                  /\ frame' = [frame EXCEPT !.pc = "encode"]
                  /\ UNCHANGED log
    /\ UNCHANGED <<input, disk, encodes>>

\* lines 152-155: the model is invoked
V1Encode ==
    /\ frame.pc = "encode"
    /\ encodes' = [encodes EXCEPT ![frame.cleaned] = @ + 1]
    /\ frame' = [frame EXCEPT !.pc = "save"]
    /\ UNCHANGED <<input, log, disk>>

\* lines 157-163: np.save, whose exception is swallowed, and the return.
\* np.save writes the file, or fails before it opened it, or fails midway
\* and leaves a truncated file.
V1Save ==
    /\ frame.pc = "save"
    /\ \E io_failed \in BOOLEAN :
          /\ IF io_failed
             THEN \/ UNCHANGED disk
                  \/ disk' = [disk EXCEPT !.files[frame.cache_path] = CorruptFile]
             ELSE disk' = [disk EXCEPT !.files[frame.cache_path] = NpyFile(Embed(frame.cleaned))]
          /\ log' = Append(log, CallOn("get_embeddings_v1", frame.text, Embed(frame.cleaned),
                                       frame.io_failed \/ io_failed))
    /\ frame' = Idle
    /\ UNCHANGED <<input, encodes>>

NextCache == GetEmbeddings \/ V1Begin \/ V1Load \/ V1Encode \/ V1Save

SpecCache == InitCache /\ [][NextCache]_vars

\* the calls of fn that have finished
Embedded(fn) == {i \in 1..Len(log) : log[i].fn = fn}

\* no cache read or write has failed so far in the run
CacheIoSucceeded ==
    /\ \A i \in 1..Len(log) : ~log[i].io_failed
    /\ frame.pc # "idle" => ~frame.io_failed

\* the normalized text of a call of fn
CleanedBy(fn, text) ==
    IF fn = "get_embeddings" THEN clean_text(text) ELSE clean_text_v1(text)

\* the cache protocol for the calls of fn: while cache I/O succeeds, the model
\* has been invoked at most once per normalized text, and every finished call
\* returned the model's vector of its normalized text and left it stored
\* under the key of that text
C9_Holds(fn) ==
    (Embedded(fn) # {} /\ CacheIoSucceeded) =>
        /\ \A cleaned \in DOMAIN encodes : encodes[cleaned] <= 1
        /\ \A i \in Embedded(fn) :
              /\ log[i].value = Embed(CleanedBy(fn, log[i].text))
              /\ disk.files[Sha256(CleanedBy(fn, log[i].text))] = NpyFile(log[i].value)

\* C9: get_embeddings follows the cache protocol keyed by the hash of the
\* normalized text: in any sequence of calls with successful cache I/O the
\* model is invoked at most once per distinct normalized text, and two raw
\* texts with the same normalized form share one entry.  Stated of the
\* get_embeddings that importers get (lines 271-272).
C9_CacheProtocol == C9_Holds("get_embeddings")

\* The first definition of get_embeddings (lines 127-163) follows the
\* protocol.
C9_CacheProtocolV1 == C9_Holds("get_embeddings_v1")

\* every finished call of the first definition returned the model's vector
C10_Holds ==
    \A i \in Embedded("get_embeddings_v1") :
        /\ ~log[i].raised
        /\ log[i].value = Embed(clean_text_v1(log[i].text))

\* C10: no cache I/O failure makes get_embeddings (lines 136-163) fail: a
\* corrupt cache entry falls through to recomputation, and a cache that
\* cannot be written, the cache directory not being creatable included,
\* still lets the call return the computed vector.
C10_NoCacheFailureFails == C10_Holds

\* Once the cache directory exists or can be created, failures of np.load
\* and np.save do not fail the call.
C10_LoadSaveFailuresSwallowed == disk.dir # "uncreatable" => C10_Holds

\* a call met a damaged cache file, or could not save, and returned the
\* model's vector
C10_SwallowedFailure ==
    \E i \in Embedded("get_embeddings_v1") : log[i].io_failed /\ ~log[i].raised

----------------------------------------------------------------------------
(* interpret_similarity (scores.py)                                         *)

\* scores are in thousandths: the float 0.8 is 800
EXCELLENT_FROM == 800
GOOD_FROM == 650
PARTIAL_FROM == 500

\* the four messages, by their band, and the message of the except branch
EXCELLENT == "Excellent match"
GOOD == "Good match"
PARTIAL == "Partial match"
WEAK == "Weak match"
UNAVAILABLE == "Score interpretation unavailable."

\* a float score, and a score the comparisons raise TypeError on (None)
Float(thousandths) == [is_float |-> TRUE, thousandths |-> thousandths]
None == [is_float |-> FALSE, thousandths |-> 0]

\* the comparisons made with > in place of >=
interpret_similarity_exclusive(score) ==
    IF ~score.is_float THEN UNAVAILABLE
    ELSE IF score.thousandths > EXCELLENT_FROM THEN EXCELLENT
    ELSE IF score.thousandths > GOOD_FROM THEN GOOD
    ELSE IF score.thousandths > PARTIAL_FROM THEN PARTIAL
    ELSE WEAK

\* interpret_similarity(score): the if/elif chain inside try, and the except
\* branch for a score that cannot be compared with a float
interpret_similarity(score) ==
    IF ~score.is_float THEN UNAVAILABLE
    ELSE IF score.thousandths >= EXCELLENT_FROM THEN EXCELLENT
    ELSE IF score.thousandths >= GOOD_FROM THEN GOOD
    ELSE IF score.thousandths >= PARTIAL_FROM THEN PARTIAL
    ELSE WEAK

\* scores run from -MaxScore to MaxScore thousandths (cosine similarity lies
\* in [-1, 1])
MaxScore == 1000

Scores == {Float(n) : n \in (0 - MaxScore)..MaxScore} \cup {None}

InitInterpret ==
    /\ input \in [score : Scores]
    /\ log = <<>>
    /\ NoCacheUse

InterpretSimilarity ==
    /\ log = <<>>
    /\ log' = <<Call("interpret_similarity", interpret_similarity(input.score))>>
    /\ UNCHANGED <<input, cache_vars>>

NextInterpret == InterpretSimilarity

SpecInterpret == InitInterpret /\ [][NextInterpret]_vars

Interpreted == Len(log) = 1 /\ log[1].fn = "interpret_similarity"

\* C11: interpret_similarity maps every score to exactly one of four bands
\* with inclusive lower bounds: score >= 0.8 is excellent, 0.65 <= score < 0.8
\* is good, 0.5 <= score < 0.65 is partial, score < 0.5 is weak; the exact
\* values 0.8, 0.65 and 0.5 fall in the higher band.
C11_Bands ==
    (Interpreted /\ input.score.is_float) =>
        LET x == input.score.thousandths
            label == log[1].value
        IN  /\ ~log[1].raised
            /\ label \in {EXCELLENT, GOOD, PARTIAL, WEAK}
            /\ label = EXCELLENT <=> x >= 800
            /\ label = GOOD <=> (650 <= x /\ x < 800)
            /\ label = PARTIAL <=> (500 <= x /\ x < 650)
            /\ label = WEAK <=> x < 500

\* a score exactly on a threshold was given the higher band
C11_Witness ==
    /\ Interpreted
    /\ input.score = Float(650)
    /\ log[1].value = GOOD

----------------------------------------------------------------------------
(* concurrent get_embeddings calls (first definition, lines 139-163) on one *)
(* cache entry.  np.save(path, emb) is open(path, "wb"), which creates or   *)
(* truncates the file, then a write of the .npy header at offset 0, then a  *)
(* write of the array data after it (the 384 float32 of all-MiniLM-L6-v2,   *)
(* 1536 bytes, go out in one write).  np.load reads the header, then the    *)
(* data.  A file is the sequence of its blocks: block 1 is the header's     *)
(* place, block 2 the data's.                                               *)

\* the blocks a file can hold besides array data: the .npy magic and header,
\* and the zeros of a hole
NPY_HEADER == [block |-> "npy header"]
ZEROS == [block |-> "zeros"]

\* a file that exists, with its blocks
FileOf(blocks) == [state |-> "file", blocks |-> blocks]

\* write(block) at a position of a file: a write past the end leaves a hole
\* that reads as zeros
WriteAt(blocks, pos, block) ==
    [i \in 1..Max(Len(blocks), pos) |->
        IF i = pos THEN block
        ELSE IF i <= Len(blocks) THEN blocks[i]
        ELSE ZEROS]

\* np.load up to the header: EOFError on an empty file, ValueError on bytes
\* that are no .npy magic
np_load_header(blocks) == Len(blocks) >= 1 /\ blocks[1] = NPY_HEADER

\* np.load taking whatever data it finds for the array
np_load_data_unchecked(blocks) ==
    IF Len(blocks) >= 2
    THEN [ok |-> TRUE, array |-> blocks[2]]
    ELSE [ok |-> TRUE, array |-> ZEROS]

\* np.load of the data: numpy.fromfile reads the items there are, and giving
\* the array its shape raises ValueError when they are too few
np_load_data(blocks) ==
    IF Len(blocks) >= 2
    THEN [ok |-> TRUE, array |-> blocks[2]]
    ELSE [ok |-> FALSE, array |-> <<>>]

\* the number of threads or processes calling get_embeddings
NumProcs == 2

Procs == 1..NumProcs

\* the number of calls begun in a run
MaxInvocations == 3

\* the raw texts of the calls: one normalized text, one cache entry
SameTexts == { <<"a">>, <<"A", " ">> }

SameCleaned == clean_text_v1(<<"a">>)

SameKey == Sha256(SameCleaned)

\* the entry as a complete np.save leaves it
CompleteBlocks(cleaned) == <<NPY_HEADER, Embed(cleaned)>>

\* the cache directory exists; the entry is absent, complete, or what an
\* interrupted np.save of an earlier run left
InitConcurrent ==
    /\ input = [impl |-> "get_embeddings_v1"]
    /\ log = <<>>
    /\ \E file \in {NoFile, FileOf(<<>>), FileOf(<<NPY_HEADER>>),
                   FileOf(CompleteBlocks(SameCleaned))} :
          disk = [dir |-> "present", files |-> [k \in {SameKey} |-> file]]
    /\ encodes = [t \in {SameCleaned} |-> 0]
    /\ frame = [p \in Procs |-> Idle]

Begun == Len(log) + Cardinality({p \in Procs : frame[p].pc # "idle"})

\* lines 139-141: cleaned, key, cache_path
ProcBegin(p) ==
    /\ frame[p].pc = "idle"
    /\ Begun < MaxInvocations
    /\ \E text \in SameTexts :
          frame' = [frame EXCEPT ![p] =
                       [pc |-> "exists", text |-> text,
                        cleaned |-> clean_text_v1(text),
                        cache_path |-> Sha256(clean_text_v1(text)),
                        io_failed |-> FALSE]]
    /\ UNCHANGED <<input, log, disk, encodes>>

\* line 145: os.path.exists(cache_path)
ProcExists(p) ==
    /\ frame[p].pc = "exists"
    /\ frame' = [frame EXCEPT ![p].pc =
                    IF disk.files[frame[p].cache_path].state = "file"
                    THEN "load_header" ELSE "encode"]
    /\ UNCHANGED <<input, log, disk, encodes>>

\* line 147, np.load reading the header; lines 148-149 when it raises
ProcLoadHeader(p) ==
    /\ frame[p].pc = "load_header"
    /\ frame' = [frame EXCEPT ![p] =
                    IF np_load_header(disk.files[frame[p].cache_path].blocks)
                    THEN [@ EXCEPT !.pc = "load_data"]
                    ELSE [@ EXCEPT !.pc = "encode", !.io_failed = TRUE]]
    /\ UNCHANGED <<input, log, disk, encodes>>

\* line 147, np.load reading the data and returning; lines 148-149 when it
\* raises
ProcLoadData(p) ==
    /\ frame[p].pc = "load_data"
    /\ LET res == np_load_data(disk.files[frame[p].cache_path].blocks)
       IN  IF res.ok
           THEN /\ log' = Append(log, CallOn("get_embeddings_v1", frame[p].text,
                                             res.array, frame[p].io_failed))
                /\ frame' = [frame EXCEPT ![p] = Idle]
           ELSE /\ frame' = [frame EXCEPT ![p].pc = "encode", ![p].io_failed = TRUE]
                /\ UNCHANGED log
    /\ UNCHANGED <<input, disk, encodes>>

\* lines 152-155: emb = _embedder.encode([cleaned])[0]
ProcEncode(p) ==
    /\ frame[p].pc = "encode"
    /\ encodes' = [encodes EXCEPT ![frame[p].cleaned] = @ + 1]
    /\ frame' = [frame EXCEPT ![p].pc = "save_open"]
    /\ UNCHANGED <<input, log, disk>>

\* line 158, np.save: open(cache_path, "wb")
ProcSaveOpen(p) ==
    /\ frame[p].pc = "save_open"
    /\ disk' = [disk EXCEPT !.files[frame[p].cache_path] = FileOf(<<>>)]
    /\ frame' = [frame EXCEPT ![p].pc = "save_header"]
    /\ UNCHANGED <<input, log, encodes>>

\* line 158, np.save: the header is written
ProcSaveHeader(p) ==
    /\ frame[p].pc = "save_header"
    /\ disk' = [disk EXCEPT !.files[frame[p].cache_path] =
                   FileOf(WriteAt(@.blocks, 1, NPY_HEADER))]
    /\ frame' = [frame EXCEPT ![p].pc = "save_data"]
    /\ UNCHANGED <<input, log, encodes>>

\* line 158, np.save: the data is written; line 163: return emb
ProcSaveData(p) ==
    /\ frame[p].pc = "save_data"
    /\ disk' = [disk EXCEPT !.files[frame[p].cache_path] =
                   FileOf(WriteAt(@.blocks, 2, Embed(frame[p].cleaned)))]
    /\ log' = Append(log, CallOn("get_embeddings_v1", frame[p].text,
                                 Embed(frame[p].cleaned), frame[p].io_failed))
    /\ frame' = [frame EXCEPT ![p] = Idle]
    /\ UNCHANGED <<input, encodes>>

NextConcurrent ==
    \E p \in Procs :
        \/ ProcBegin(p)
        \/ ProcExists(p)
        \/ ProcLoadHeader(p)
        \/ ProcLoadData(p)
        \/ ProcEncode(p)
        \/ ProcSaveOpen(p)
        \/ ProcSaveHeader(p)
        \/ ProcSaveData(p)

SpecConcurrent == InitConcurrent /\ [][NextConcurrent]_vars

\* no call is running
Quiescent == \A p \in Procs : frame[p].pc = "idle"

\* C12: for any interleaving of concurrent get_embeddings invocations on the
\* same normalized text (existence check, load, compute, non-atomic save),
\* every invocation returns the correct vector without error, and the cache
\* entry left at the end is the complete correct vector; a reader that
\* observes a partially written entry does not return corrupt data.
C12_RaceHarmless ==
    /\ \A i \in 1..Len(log) :
          /\ ~log[i].raised
          /\ log[i].value = Embed(clean_text_v1(log[i].text))
    /\ (Quiescent /\ log # <<>>) =>
          disk.files[SameKey] = FileOf(CompleteBlocks(SameCleaned))

\* two calls raced on the write (the model ran twice), one of them after it
\* met a partially written entry, and all calls have returned
C12_Witness ==
    /\ Quiescent
    /\ encodes[SameCleaned] >= 2
    /\ \E i \in 1..Len(log) : log[i].io_failed /\ ~log[i].raised

----------------------------------------------------------------------------
(* process_resume_and_job: clean both texts, load the dictionary, extract   *)
(* the skills of the cleaned texts, embed the cleaned texts                 *)

\* doc.noun_chunks of a document, as the parser that finds no chunk or the
\* one that makes every span of words a chunk
NounChunks(chunker, doc_text) ==
    IF chunker = "every span" THEN Spans(doc_text) ELSE {}

\* the model's invocations after the two get_embeddings calls of a run: the
\* cache of the first definition saves the second invocation for one text
Encoded(first, second, cached) ==
    [t \in {first, second} |-> IF first = second /\ ~cached THEN 2 ELSE 1]

\* the result of a run: the returned dict (or the exception), and the texts
\* of the two documents extract_skills matched against the dictionary
Processed(fn, raised, value, matched) ==
    [fn |-> fn, raised |-> raised, value |-> value, matched |-> matched]

\* process_resume_and_job as importers get it (lines 275-292): its possible
\* outcomes, one for each order load_skills can give the dictionary.
\* resume_doc and job_doc are the texts extract_skills (line 241) and
\* get_embeddings (line 272) get by cleaning the cleaned text again.
process_resume_and_job(resume_text, job_text, source, chunker) ==
    UNION { UNION { {
        IF loaded.raised \/ resume_skills.raised \/ job_skills.raised
        THEN Processed("process_resume_and_job", TRUE, <<>>,
                       [resume |-> resume_doc, job |-> job_doc])
        ELSE Processed("process_resume_and_job", FALSE,
                       [resume_clean |-> resume_clean,
                        job_clean |-> job_clean,
                        resume_skills |-> resume_skills.value,
                        job_skills |-> job_skills.value,
                        resume_embedding |-> Embed(resume_doc),
                        job_embedding |-> Embed(job_doc)],
                       [resume |-> resume_doc, job |-> job_doc])
        : resume_skills \in {extract_skills(loaded.value, resume_clean,
                                            NounChunks(chunker, resume_doc), <<>>)},
          job_skills \in {extract_skills(loaded.value, job_clean,
                                         NounChunks(chunker, job_doc), <<>>)} }
        : resume_doc \in {clean_text(resume_clean)},
          job_doc \in {clean_text(job_clean)} }
        : loaded \in load_skills(source),
          resume_clean \in {clean_text(resume_text)},
          job_clean \in {clean_text(job_text)} }

\* process_resume_and_job, first definition (lines 166-188), with the first
\* definitions of the functions it calls (lines 102 and 139 clean again)
process_resume_and_job_v1(resume_text, job_text, source, chunker) ==
    UNION { UNION { {
        Processed("process_resume_and_job_v1", FALSE,
                  [resume_clean |-> resume_clean,
                   job_clean |-> job_clean,
                   resume_skills |-> resume_skills.value,
                   job_skills |-> job_skills.value,
                   resume_embedding |-> Embed(resume_doc),
                   job_embedding |-> Embed(job_doc)],
                  [resume |-> resume_doc, job |-> job_doc])
        : resume_skills \in {extract_skills_v1(loaded.value, resume_clean,
                                               NounChunks(chunker, resume_doc), <<>>)},
          job_skills \in {extract_skills_v1(loaded.value, job_clean,
                                            NounChunks(chunker, job_doc), <<>>)} }
        : resume_doc \in {clean_text_v1(resume_clean)},
          job_doc \in {clean_text_v1(job_clean)} }
        : loaded \in {load_skills_v1(source)},
          resume_clean \in {clean_text_v1(resume_text)},
          job_clean \in {clean_text_v1(job_text)} }

\* the resume texts of the runs: up to MaxProcessFrags fragments
MaxProcessFrags == 3

ProcessFragments ==
    { WWW, <<"\n">>, <<"a">>, <<"1">>, <<".">>,
      <<"1", "2", "1", "2", "1", "2", "1", "2">> }

RECURSIVE ResumeTextsUpTo(_)
ResumeTextsUpTo(n) ==
    IF n = 0 THEN {<<>>}
    ELSE LET shorter == ResumeTextsUpTo(n - 1)
         IN  shorter \cup {t \o f : t \in shorter, f \in ProcessFragments}

ResumeTexts == ResumeTextsUpTo(MaxProcessFrags)

\* the job texts of the runs
JobTexts == { <<>>, WWW, WWW \o <<"\n", "a">> }

\* skills.csv: unreadable, empty, or with the one skill www
ProcessSources == { Unreadable, Readable(<<>>), Readable(<<WWW>>) }

InitProcess ==
    /\ input \in [resume_text : ResumeTexts, job_text : JobTexts,
                  source : ProcessSources,
                  chunker : {"no chunk", "every span"}]
    /\ log = <<>>
    /\ NoCacheUse

\* process_resume_and_job(resume_text, job_text); get_embeddings (lines
\* 271-272) invokes the model on each cleaned text and stores nothing
ProcessResumeAndJob ==
    /\ log = <<>>
    /\ \E res \in process_resume_and_job(input.resume_text, input.job_text,
                                         input.source, input.chunker) :
          /\ log' = <<res>>
          /\ encodes' = IF res.raised THEN encodes
                        ELSE Encoded(res.value.resume_embedding.emb_of,
                                     res.value.job_embedding.emb_of, FALSE)
    /\ UNCHANGED <<input, disk, frame>>

\* the first definition; its get_embeddings (lines 127-163) creates the
\* cache directory and leaves the two vectors saved
ProcessResumeAndJobV1 ==
    /\ log = <<>>
    /\ \E res \in process_resume_and_job_v1(input.resume_text, input.job_text,
                                            input.source, input.chunker) :
          /\ log' = <<res>>
          /\ encodes' = Encoded(res.value.resume_embedding.emb_of,
                                res.value.job_embedding.emb_of, TRUE)
          /\ disk' = [dir |-> "present",
                      files |-> [k \in {Sha256(res.value.resume_embedding.emb_of),
                                        Sha256(res.value.job_embedding.emb_of)}
                                    |-> NpyFile(Embed(k.sha256_of))]]
    /\ UNCHANGED <<input, frame>>

NextProcess == ProcessResumeAndJob \/ ProcessResumeAndJobV1

SpecProcess == InitProcess /\ [][NextProcess]_vars

\* the runs of fn that returned a result
Returned(fn) == Len(log) = 1 /\ log[1].fn = fn /\ ~log[1].raised

\* the texts matched and embedded are the cleaned texts of the result
C13_Holds(fn) ==
    Returned(fn) =>
        LET result == log[1].value
        IN  /\ log[1].matched.resume = result.resume_clean
            /\ log[1].matched.job = result.job_clean
            /\ result.resume_embedding = Embed(result.resume_clean)
            /\ result.job_embedding = Embed(result.job_clean)

\* C13: in process_resume_and_job, the text that is actually skill-matched
\* and embedded (after extract_skills and get_embeddings clean their argument
\* again) is exactly the resume_clean / job_clean string returned in the
\* result, for every resume and job text.
C13_CleanedTextIsUsed == C13_Holds("process_resume_and_job")

\* The same of the first definition (lines 166-188).
C13_CleanedTextIsUsedV1 == C13_Holds("process_resume_and_job_v1")

\* What holds of both definitions: the text matched and the text embedded
\* are one text, the cleaned text cleaned once more.
C13_MatchedIsEmbedded ==
    \A fn \in {"process_resume_and_job", "process_resume_and_job_v1"} :
        Returned(fn) =>
            /\ log[1].value.resume_embedding = Embed(log[1].matched.resume)
            /\ log[1].value.job_embedding = Embed(log[1].matched.job)

\* a returned resume_clean holds the skill www, and the skills of the resume
\* hold none: the text matched was not resume_clean
C13_SkillLost ==
    /\ Returned("process_resume_and_job")
    /\ input.source = Readable(<<WWW>>)
    /\ WWW \in ToSet(SplitWords(log[1].value.resume_clean))
    /\ log[1].value.resume_skills = SkillRecord({}, {})

=============================================================================
